---- MODULE Spec2Model ----
(***************************************************************************)
(* Arithmetic of polynomials over GF(2) packed in a bitset<SIZE>, the      *)
(* primitivity test and the field enumeration of polynomials.cpp.          *)
(*                                                                         *)
(* A Polynomial is the set of the indices of its set bits, a subset of     *)
(* 0..SIZE-1: bit i is the coefficient of x^i.  The loops of operator%,    *)
(* isPrimitive and findFieldElements are followed test by test; operator*  *)
(* (a loop of exactly SIZE iterations) and degree are operators.           *)
(***************************************************************************)
EXTENDS Integers, Sequences, FiniteSets

VARIABLES pc, op, caller, a, b, rem, remDegree, i, p, current, order,
          groupOrder, res, ret

vars == <<pc, op, caller, a, b, rem, remDegree, i, p, current, order,
          groupOrder, res, ret>>

(***************************************************************************)
(* Program constants and the bounds of the model.                          *)
(***************************************************************************)
SIZE == 64

IntWidth == 32

\* Every polynomial of degree <= MaxDeg is an input of isPrimitive and of
\* findFieldElements.
MaxDeg == 5

\* Every pair of polynomials of degree <= MaxArithDeg is an input of
\* operator% and of operator*.
MaxArithDeg == 4

\* The counter of isPrimitive and the vector of findFieldElements stop
\* growing at MaxIter: a loop that runs longer (it does not end when x has no
\* inverse modulo p) keeps running with them held there.
MaxIter == 66

(***************************************************************************)
(* bitset<SIZE>: construction from an integer, XOR, left shift.            *)
(***************************************************************************)
\* Polynomial(n) for 0 <= n < 2^31
FromInt(n) == {k \in 0..30 : (n \div (2^k)) % 2 = 1}

\* a << k: the bits shifted past SIZE-1 are lost
ShiftLeft(x, k) == {j + k : j \in {e \in x : e + k < SIZE}}

\* operator+: bitwise XOR (u, v: the operands, each evaluated once)
Add(x, y) == CHOOSE s \in {(u \ v) \cup (v \ u) : u \in {x}, v \in {y}} : TRUE

\* degree with the zero polynomial reported as -1 instead of 0
degreeOfZeroNegative(x) ==
    IF x = {}
    THEN -1
    ELSE CHOOSE deg \in x : \A k \in x : k <= deg

RECURSIVE DegreeLoop(_, _)
DegreeLoop(x, deg) ==
    IF deg > 0 /\ deg \notin x THEN DegreeLoop(x, deg - 1) ELSE deg

\* degree: the highest set bit, 0 for the zero polynomial
degree(x) == DegreeLoop(x, SIZE - 1)

RECURSIVE MultiplyLoop(_, _, _, _)
MultiplyLoop(x, y, k, total) ==
    IF k < SIZE
    THEN IF k \notin x
         THEN MultiplyLoop(x, y, k + 1, total)
         ELSE MultiplyLoop(x, y, k + 1, Add(total, ShiftLeft(y, k)))
    ELSE total

\* operator* with its loop started at bit 1
MultiplySkipsBitZero(x, y) == MultiplyLoop(x, y, 1, {})

\* operator*
Multiply(x, y) == MultiplyLoop(x, y, 0, {})

first == FromInt(1)

alpha == FromInt(2)

(***************************************************************************)
(* int groupOrder = (1 << degree(p)) - 1 in a 32-bit int.  For a shift     *)
(* count below IntWidth - 1 the value is 2^n - 1.  For IntWidth - 1 the    *)
(* subtraction overflows and wraps to INT_MAX.  A count >= IntWidth is     *)
(* undefined: the hardware either masks the count to its low five bits     *)
(* (x86, AArch64) or shifts the 1 out (ARM32, PowerPC).                    *)
(***************************************************************************)
Pow2Minus1(n) == IF n = 0 THEN 0 ELSE (2^(n - 1) - 1) + 2^(n - 1)

GroupOrderOutcomes(deg) ==
    IF deg < IntWidth
    THEN {Pow2Minus1(deg)}
    ELSE {Pow2Minus1(deg % IntWidth), -1}

(***************************************************************************)
(* Inputs.                                                                 *)
(***************************************************************************)
PolysUpTo(d) == SUBSET (0..d)

\* x^38 + ... + 1 = (x^2+x+1) * (six primitive polynomials of degree 6)
P38 == {0, 1, 2, 3, 4, 5, 9, 10, 11, 12, 13, 14, 18, 19, 20, 24, 25, 26, 27,
        28, 29, 33, 34, 35, 36, 37, 38}

\* candidates of testApplication and testFindFieldElements, the spec's
\* x^6+x+1, and polynomials of degree >= IntWidth with x of small order
FieldInputs ==
    PolysUpTo(MaxDeg)
        \cup {FromInt(65), FromInt(73), FromInt(97), FromInt(67), FromInt(25)}
        \cup {{0, 32}, P38, {0, SIZE - 1}}

\* the pair of testRemainder, and dividends of degree up to SIZE - 1
RemainderPairs ==
    (PolysUpTo(MaxArithDeg) \X PolysUpTo(MaxArithDeg))
        \cup {<<FromInt(16254), FromInt(283)>>,
              <<{SIZE - 1, 7, 0}, {SIZE - 3, 1}>>,
              <<{SIZE - 1, SIZE - 2, 3}, {SIZE - 2, 0}>>,
              <<{SIZE - 1, SIZE - 5, 2, 1}, {SIZE - 5, 3, 0}>>,
              <<{SIZE - 4, 1, 0}, {SIZE - 1, 3, 0}>>,
              <<{SIZE - 1, 5}, {0}>>, <<{SIZE - 1, 5}, {}>>}

\* the pairs of testMultiplication, and products of degree around SIZE
MultiplyPairs ==
    (PolysUpTo(MaxArithDeg) \X PolysUpTo(MaxArithDeg))
        \cup {<<FromInt(5), FromInt(3)>>, <<FromInt(3), FromInt(3)>>,
              <<FromInt(5), FromInt(0)>>,
              <<{SIZE - 1, 2}, {1, 0}>>, <<{1, 0}, {SIZE - 1, 2}>>,
              <<{SIZE - 4, 1, 0}, {5, 3, 0}>>, <<{5, 3, 0}, {SIZE - 4, 1, 0}>>,
              <<{SIZE - 4, 1, 0}, {3, 0}>>, <<{3, 0}, {SIZE - 4, 1, 0}>>,
              <<{SIZE \div 2, 1}, {SIZE \div 2, 0}>>,
              <<{SIZE \div 2, 0}, {SIZE \div 2, 1}>>,
              <<{SIZE - 1, 5}, {}>>, <<{}, {SIZE - 1, 5}>>}

(***************************************************************************)
(* State after construction: no call is in progress.                       *)
(***************************************************************************)
Init ==
    /\ pc = "idle"
    /\ op = "none"
    /\ caller = "none"
    /\ a = {}
    /\ b = {}
    /\ rem = {}
    /\ remDegree = 0
    /\ i = 0
    /\ p = {}
    /\ current = {}
    /\ order = 0
    /\ groupOrder = 0
    /\ res = <<>>
    /\ ret = {}

(***************************************************************************)
(* operator%                                                               *)
(***************************************************************************)
\* operator% entered with i = aDeg instead of aDeg - bDeg
EnterRemainderNoSubtract(x, y, from) ==
    /\ a' = x
    /\ b' = y
    /\ rem' = x
    /\ remDegree' = degree(x)
    /\ i' = degree(x)
    /\ caller' = from
    /\ pc' = "rem_loop"

\* lines 33-39: the state of operator%(x, y) at its first loop test
EnterRemainder(x, y, from) ==
    /\ a' = x
    /\ b' = y
    /\ rem' = x
    /\ \E aDeg \in {degree(x)}, bDeg \in {degree(y)} :
          /\ remDegree' = aDeg
          /\ i' = aDeg - bDeg
    /\ caller' = from
    /\ pc' = "rem_loop"

CallRemainder ==
    /\ pc = "idle"
    /\ \E xy \in RemainderPairs : EnterRemainder(xy[1], xy[2], "top")
    /\ op' = "remainder"
    /\ UNCHANGED <<p, current, order, groupOrder, res, ret>>

\* the loop body of operator% with i lowered by one in every iteration
RemainderBodyStepsByOne ==
    /\ pc = "rem_body"
    /\ pc' = "rem_loop"
    /\ \E newRem \in {Add(rem, ShiftLeft(b, i))} :
          /\ rem' = newRem
          /\ i' = i - 1
          /\ remDegree' = degree(newRem)
    /\ UNCHANGED <<op, caller, a, b, p, current, order, groupOrder, res, ret>>

\* line 40: the loop test holds
RemainderLoop ==
    /\ pc = "rem_loop"
    /\ i >= 0
    /\ pc' = "rem_body"
    /\ UNCHANGED <<op, caller, a, b, rem, remDegree, i, p, current, order,
                   groupOrder, res, ret>>

\* lines 41-46: the loop body
RemainderBody ==
    /\ pc = "rem_body"
    /\ pc' = "rem_loop"
    /\ \E x \in {ShiftLeft(b, i)} :
       \E newRem \in {Add(rem, x)} :
       \E newDegree \in {degree(newRem)} :
          /\ rem' = newRem
          /\ i' = i - (remDegree - newDegree)
          /\ remDegree' = newDegree
    /\ UNCHANGED <<op, caller, a, b, p, current, order, groupOrder, res, ret>>

\* line 49, and the statement of the caller that receives the value
RemainderReturn ==
    /\ pc = "rem_loop"
    /\ i < 0
    /\ IF caller = "top"
       THEN /\ ret' = rem
            /\ pc' = "done"
            /\ UNCHANGED <<current, order>>
       ELSE IF caller = "isPrimitive"
       THEN /\ current' = rem
            /\ order' = IF order < MaxIter THEN order + 1 ELSE order
            /\ pc' = "prim_loop"
            /\ UNCHANGED ret
       ELSE /\ current' = rem
            /\ pc' = "field_loop"
            /\ UNCHANGED <<order, ret>>
    /\ UNCHANGED <<op, caller, a, b, rem, remDegree, i, p, groupOrder, res>>

(***************************************************************************)
(* operator*                                                               *)
(***************************************************************************)
CallMultiply ==
    /\ pc = "idle"
    /\ \E xy \in MultiplyPairs :
          /\ a' = xy[1]
          /\ b' = xy[2]
          /\ ret' = Multiply(xy[1], xy[2])
    /\ op' = "multiply"
    /\ pc' = "done"
    /\ UNCHANGED <<caller, rem, remDegree, i, p, current, order, groupOrder, res>>

(***************************************************************************)
(* isPrimitive                                                             *)
(***************************************************************************)
\* lines 84-95
CallIsPrimitive ==
    /\ pc = "idle"
    /\ op' = "isPrimitive"
    /\ \E q \in FieldInputs :
          /\ p' = q
          /\ IF degree(q) < 2
             THEN /\ ret' = FALSE
                  /\ pc' = "done"
                  /\ UNCHANGED <<current, groupOrder, order>>
             ELSE /\ current' = alpha
                  /\ groupOrder' \in GroupOrderOutcomes(degree(q))
                  /\ order' = 1
                  /\ pc' = "prim_loop"
                  /\ UNCHANGED ret
    /\ UNCHANGED <<caller, a, b, rem, remDegree, i, res>>

\* the loop of isPrimitive without the reduction modulo p
IsPrimitiveLoopNoReduction ==
    /\ pc = "prim_loop"
    /\ current /= first
    /\ current' = Multiply(current, alpha)
    /\ order' = IF order < MaxIter THEN order + 1 ELSE order
    /\ UNCHANGED <<pc, op, caller, a, b, rem, remDegree, i, p, groupOrder, res, ret>>

\* lines 97-99: the loop test, current * alpha, and the call of operator%
\* (order++ follows its return)
IsPrimitiveLoop ==
    /\ pc = "prim_loop"
    /\ current /= first
    /\ \E product \in {Multiply(current, alpha)} :
          /\ current' = product
          /\ EnterRemainder(product, p, "isPrimitive")
    /\ UNCHANGED <<op, p, order, groupOrder, res, ret>>

\* line 103
IsPrimitiveReturn ==
    /\ pc = "prim_loop"
    /\ current = first
    /\ ret' = (order = groupOrder)
    /\ pc' = "done"
    /\ UNCHANGED <<op, caller, a, b, rem, remDegree, i, p, current, order,
                   groupOrder, res>>

(***************************************************************************)
(* findFieldElements                                                       *)
(***************************************************************************)
\* lines 69-72
CallFindFieldElements ==
    /\ pc = "idle"
    /\ op' = "findFieldElements"
    /\ \E q \in FieldInputs : p' = q
    /\ res' = <<FromInt(0), first>>
    /\ current' = alpha
    /\ pc' = "field_loop"
    /\ UNCHANGED <<caller, a, b, rem, remDegree, i, order, groupOrder, ret>>

\* the loop of findFieldElements with push_back after the multiplication
FindFieldElementsLoopPushesLate ==
    /\ pc = "field_loop"
    /\ current /= first
    /\ \E product \in {Multiply(current, alpha)} :
          /\ res' = IF Len(res) < MaxIter THEN Append(res, product) ELSE res
          /\ current' = product
          /\ EnterRemainder(product, p, "findFieldElements")
    /\ UNCHANGED <<op, p, order, groupOrder, ret>>

\* the loop of findFieldElements without the reduction modulo p
FindFieldElementsLoopNoReduction ==
    /\ pc = "field_loop"
    /\ current /= first
    /\ res' = IF Len(res) < MaxIter THEN Append(res, current) ELSE res
    /\ current' = Multiply(current, alpha)
    /\ UNCHANGED <<pc, op, caller, a, b, rem, remDegree, i, p, order, groupOrder, ret>>

\* lines 74-77: the loop test, push_back, current * alpha, and the call of
\* operator%
FindFieldElementsLoop ==
    /\ pc = "field_loop"
    /\ current /= first
    /\ res' = IF Len(res) < MaxIter THEN Append(res, current) ELSE res
    /\ \E product \in {Multiply(current, alpha)} :
          /\ current' = product
          /\ EnterRemainder(product, p, "findFieldElements")
    /\ UNCHANGED <<op, p, order, groupOrder, ret>>

\* line 80
FindFieldElementsReturn ==
    /\ pc = "field_loop"
    /\ current = first
    /\ ret' = res
    /\ pc' = "done"
    /\ UNCHANGED <<op, caller, a, b, rem, remDegree, i, p, current, order,
                   groupOrder, res>>

(***************************************************************************)
(* Specifications: the whole program, and one per entry point.  The        *)
(* program is one thread that runs until it returns: weak fairness of the  *)
(* next-state relation.                                                    *)
(***************************************************************************)
Next ==
    \/ CallRemainder
    \/ RemainderLoop
    \/ RemainderBody
    \/ RemainderReturn
    \/ CallMultiply
    \/ CallIsPrimitive
    \/ IsPrimitiveLoop
    \/ IsPrimitiveReturn
    \/ CallFindFieldElements
    \/ FindFieldElementsLoop
    \/ FindFieldElementsReturn

Spec == Init /\ [][Next]_vars /\ WF_vars(Next)

NextArith ==
    \/ CallRemainder
    \/ RemainderLoop
    \/ RemainderBody
    \/ RemainderReturn
    \/ CallMultiply

SpecArith == Init /\ [][NextArith]_vars /\ WF_vars(NextArith)

NextPrimitive ==
    \/ CallIsPrimitive
    \/ IsPrimitiveLoop
    \/ RemainderLoop
    \/ RemainderBody
    \/ RemainderReturn
    \/ IsPrimitiveReturn

SpecPrimitive == Init /\ [][NextPrimitive]_vars /\ WF_vars(NextPrimitive)

NextField ==
    \/ CallFindFieldElements
    \/ FindFieldElementsLoop
    \/ RemainderLoop
    \/ RemainderBody
    \/ RemainderReturn
    \/ FindFieldElementsReturn

SpecField == Init /\ [][NextField]_vars /\ WF_vars(NextField)

(***************************************************************************)
(* GF(2)[x] itself, against which the results of the code are judged:      *)
(* polynomials of any degree as sets of exponents, the product by its      *)
(* coefficients, divisibility by the existence of a quotient, powers of x  *)
(* modulo q by one shift and one conditional subtraction at a time.        *)
(***************************************************************************)
SymDiff(x, y) == (x \cup y) \ (x \cap y)

\* the exponent of the leading term; -1 for the zero polynomial
Top(x) == IF x = {} THEN -1 ELSE CHOOSE k \in x : \A j \in x : j <= k

\* coefficient k of x * y is the XOR over j + l = k of x_j AND y_l
MathProduct(x, y) ==
    {k \in 0..(Top(x) + Top(y)) : Cardinality({j \in x : (k - j) \in y}) % 2 = 1}

\* c = y * q for some polynomial q
IsMultipleOf(c, y) ==
    \/ c = {}
    \/ /\ y /= {}
       /\ Top(c) >= Top(y)
       /\ \E q \in SUBSET (0..(Top(c) - Top(y))) : MathProduct(y, q) = c

\* the binary digits of a non-negative int
IntBits(n) == {k \in 0..(IntWidth - 2) : (n \div (2^k)) % 2 = 1}

\* n = 2^d - 1, for an int n and any d
IsPow2Minus1(n, d) == n >= 0 /\ IntBits(n) = 0..(d - 1)

\* n < 2^d, for an int n and any d
BelowPow2(n, d) == n < 0 \/ \A k \in IntBits(n) : k < d

\* (c * x) mod q for c of degree below Top(q) >= 1
MulXMod(c, q) ==
    LET s == {k + 1 : k \in c}
    IN IF Top(q) \in s THEN SymDiff(s, q) ELSE s

RECURSIVE XPowMod(_, _)
\* x^k mod q for Top(q) >= 1
XPowMod(k, q) == IF k = 0 THEN {0} ELSE MulXMod(XPowMod(k - 1, q), q)

RECURSIVE OrderFrom(_, _, _)
OrderFrom(q, c, k) == IF c = {0} THEN k ELSE OrderFrom(q, MulXMod(c, q), k + 1)

\* the multiplicative order of x modulo q, the smallest k >= 1 with
\* x^k mod q = 1; it exists when q has degree >= 1 and constant term 1
\* (0 stands for "none")
OrderOfX(q) ==
    IF Top(q) >= 1 /\ 0 \in q THEN OrderFrom(q, MulXMod({0}, q), 1) ELSE 0

\* q is no product of two polynomials of degree >= 1
Irreducible(q) ==
    /\ Top(q) >= 1
    /\ \A f \in PolysUpTo(Top(q) \div 2) :
          Top(f) >= 1 => ~IsMultipleOf(q, f)

\* the inputs up to the degree where irreducibility is decided by trial
\* division
SmallInputs == {q \in FieldInputs : Top(q) <= MaxDeg + 1}

IrreducibleInputs == {q \in SmallInputs : Irreducible(q)}

\* primitive: irreducible, and x of order 2^degree - 1
PrimitiveInputs ==
    {q \in FieldInputs :
        /\ IsPow2Minus1(OrderOfX(q), Top(q))
        /\ q \in IrreducibleInputs}

OrderTable == [q \in FieldInputs |-> OrderOfX(q)]

(***************************************************************************)
(* Claims about operator% and operator*, under SpecArith.                  *)
(***************************************************************************)
RemainderReturned == pc = "done" /\ op = "remainder"

\* C3: for every a and every b with degree(b) >= 1, remainder(a, b) ends and
\* returns r with r zero or of degree below degree(b), and a XOR r a multiple
\* of b; remainder(0b11111101111110, 0b100011011) = 1.
C3_Remainder ==
    /\ [](RemainderReturned /\ Top(b) >= 1 =>
            /\ ret = {} \/ Top(ret) < Top(b)
            /\ IsMultipleOf(SymDiff(a, ret), b)
            /\ (a = FromInt(16254) /\ b = FromInt(283) => ret = FromInt(1)))
    /\ (op = "remainder" /\ Top(b) >= 1 ~> RemainderReturned)

\* the reference's regression case has returned after several iterations
C3_Witness ==
    /\ RemainderReturned
    /\ a = FromInt(16254)
    /\ b = FromInt(283)
    /\ ret = FromInt(1)

\* C4: multiply(a, b) is the GF(2)[x] product with the coefficients of index
\* >= SIZE dropped, hence the product itself when degree(a) + degree(b) <
\* SIZE; it is commutative there and multiply(a, 0) = 0;
\* multiply(0b101, 0b11) = 0b1111 and multiply(0b11, 0b11) = 0b101.
C4_Multiply ==
    pc = "done" /\ op = "multiply" =>
        /\ ret = {k \in MathProduct(a, b) : k < SIZE}
        /\ (degree(a) + degree(b) < SIZE =>
               /\ ret = MathProduct(a, b)
               /\ ret = Multiply(b, a))
        /\ (b = {} => ret = {})
        /\ (a = FromInt(5) /\ b = FromInt(3) => ret = FromInt(15))
        /\ (a = FromInt(3) /\ b = FromInt(3) => ret = FromInt(5))

\* a product that lost its coefficients of index >= SIZE
C4_Witness ==
    /\ pc = "done"
    /\ op = "multiply"
    /\ a = {SIZE - 4, 1, 0}
    /\ b = {5, 3, 0}
    /\ ret /= MathProduct(a, b)
    /\ ret = {k \in MathProduct(a, b) : k < SIZE}

\* C9: with a divisor of degree 0 (the zero polynomial or the constant 1) the
\* loop of remainder never exits: i = degree(rem) >= 0 in every state, and
\* nothing is returned.
C9_DegreeZeroDivisorLoops ==
    op = "remainder" /\ b \in {{}, {0}} =>
        /\ pc \in {"rem_loop", "rem_body"}
        /\ i >= 0
        /\ i = degree(rem)

\* the loop with divisor 1 has consumed the whole dividend and still runs
C9_Witness ==
    /\ op = "remainder"
    /\ pc = "rem_loop"
    /\ b = {0}
    /\ a = {SIZE - 1, 5}
    /\ rem = {}
    /\ i = 0

(***************************************************************************)
(* Claims about isPrimitive, under SpecPrimitive.                          *)
(***************************************************************************)
InIsPrimitiveLoop ==
    op = "isPrimitive" /\ pc \in {"prim_loop", "rem_loop", "rem_body"}

IsPrimitiveReturned == op = "isPrimitive" /\ pc = "done"

\* C6: for every irreducible p of degree >= 2 the order-counting loop of
\* isPrimitive ends, and the order counter never exceeds 2^degree(p) - 1.
C6_OrderLoopBounded ==
    /\ [](InIsPrimitiveLoop /\ p \in IrreducibleInputs /\ Top(p) >= 2 =>
            BelowPow2(order, Top(p)))
    /\ (InIsPrimitiveLoop /\ p \in IrreducibleInputs /\ Top(p) >= 2
            ~> IsPrimitiveReturned)

\* the loop of a primitive polynomial of degree 6 has counted up to 2^6 - 1
\* and returned
C6_Witness ==
    /\ IsPrimitiveReturned
    /\ p = FromInt(67)
    /\ p \in IrreducibleInputs
    /\ order = 63

\* C7: for every p with 2 <= degree(p) <= SIZE - 1 the groupOrder that
\* isPrimitive compares the counted order against is 2^degree(p) - 1.
C7_GroupOrderExact ==
    op = "isPrimitive" /\ degree(p) >= 2 =>
        IsPow2Minus1(groupOrder, Top(p))

\* C10: for every p of degree >= 2 with constant term 1, reducible or not,
\* isPrimitive(p) ends and returns true exactly when p is primitive.
C10_NoFalsePositive ==
    IsPrimitiveReturned /\ Top(p) >= 2 /\ 0 \in p =>
        (ret <=> p \in PrimitiveInputs)

\* C1 on the inputs whose irreducibility trial division decides: isPrimitive
\* returns true exactly when degree(p) >= 2 and x has order 2^degree(p) - 1,
\* and returns false without entering the loop when degree(p) < 2.
C1_SmallDegrees ==
    /\ (IsPrimitiveReturned /\ p \in IrreducibleInputs =>
           (ret <=> (Top(p) >= 2 /\ IsPow2Minus1(OrderTable[p], Top(p)))))
    /\ (op = "isPrimitive" /\ degree(p) < 2 =>
           pc = "done" /\ ret = FALSE /\ order = 0)
    /\ (IsPrimitiveReturned /\ p = FromInt(65) => ret = FALSE)
    /\ (IsPrimitiveReturned /\ p = FromInt(67) => ret = TRUE)

(***************************************************************************)
(* Claims about findFieldElements, under SpecField.                        *)
(***************************************************************************)
InFindFieldElements == op = "findFieldElements"

FindFieldElementsReturned == op = "findFieldElements" /\ pc = "done"

\* C2: for every primitive p of degree q >= 2, findFieldElements(p) returns
\* [0, 1, x, x^2 mod p, ..., x^(2^q-2) mod p]: 2^q elements, the first 0, the
\* second 1, no other equal to 1; for p = 0b11001 the length is 16.
C2_FieldElements ==
    /\ [](FindFieldElementsReturned /\ p \in PrimitiveInputs /\ Top(p) >= 2 =>
            /\ IsPow2Minus1(Len(ret) - 1, Top(p))
            /\ ret[1] = {}
            /\ ret[2] = {0}
            /\ \A k \in 3..Len(ret) :
                  ret[k] /= {0} /\ ret[k] = XPowMod(k - 2, p)
            /\ (p = FromInt(25) => Len(ret) = 16))
    /\ (InFindFieldElements /\ p \in PrimitiveInputs /\ Top(p) >= 2
            ~> FindFieldElementsReturned)

\* the 16 elements of GF(2^4) of testFindFieldElements have been returned
C2_Witness ==
    /\ FindFieldElementsReturned
    /\ p = FromInt(25)
    /\ p \in PrimitiveInputs
    /\ Len(ret) = 16

\* C5, as stated: for every p that is not primitive the loop of
\* findFieldElements(p) ends and the sequence returned has fewer than
\* 2^degree(p) elements.
C5_NonPrimitiveTerminates ==
    InFindFieldElements /\ p \notin PrimitiveInputs
        ~> FindFieldElementsReturned /\ BelowPow2(Len(ret), degree(p))

\* C5, amended: for every p of degree >= 2 with constant term 1 that is not
\* primitive the loop of findFieldElements(p) ends and the sequence
\* returned has fewer than 2^degree(p) elements.
C5_NonPrimitiveInvertibleTerminates ==
    InFindFieldElements /\ p \notin PrimitiveInputs /\ Top(p) >= 2 /\ 0 \in p
        ~> FindFieldElementsReturned /\ BelowPow2(Len(ret), degree(p))

\* x^6 + 1 is reducible, x has order 6 modulo it: 7 elements are returned
C5_Witness ==
    /\ FindFieldElementsReturned
    /\ p = FromInt(65)
    /\ p \notin PrimitiveInputs
    /\ Len(ret) = 7

(***************************************************************************)
(* Claim about the shifts reached from the field algorithms, under Spec.   *)
(***************************************************************************)
\* C8: in isPrimitive(p) and findFieldElements(p) with degree(p) >= 2, at
\* every loop test degree(current) < degree(p), so current * x loses no
\* coefficient; in remainder(a, b) with degree(b) >= 1 every shift b << i
\* has i = degree(rem) - degree(b) and loses no set bit.
C8_NoTruncationReached ==
    /\ (pc \in {"prim_loop", "field_loop"} /\ degree(p) >= 2 =>
           /\ degree(current) < degree(p)
           /\ degree(current) + 1 <= SIZE - 1
           /\ Multiply(current, alpha) = MathProduct(current, alpha))
    /\ (pc = "rem_body" /\ degree(b) >= 1 =>
           /\ i = degree(rem) - degree(b)
           /\ \A k \in b : k + i < SIZE)

\* isPrimitive(x^63 + 1) reduces the product x^62 * x, of degree SIZE - 1
C8_Witness ==
    /\ pc = "rem_body"
    /\ caller = "isPrimitive"
    /\ b = {0, SIZE - 1}
    /\ rem = {SIZE - 1}
    /\ i = 0

====
